---- MODULE Spec2Model ----
(***************************************************************************)
(* Model of uptown_funk_macro/src/signature/inputs.rs: the classification  *)
(* of a host function parameter (transform_path, transform_reference), the *)
(* three artefacts transform() generates for it, and the behaviour of the  *)
(* generated decode prolog when the trampoline is called by a guest.       *)
(***************************************************************************)
EXTENDS Integers, Sequences, FiniteSets, TLC

VARIABLES
    sig,            \* the host function's parameters: Seq of [pat, ty]
    genPos,         \* number of parameters transform() has been applied to
    genStatus,      \* "generating" | "ok" | "error"
    lastResult,     \* what transform() returned for parameter genPos
    guestSig,       \* concatenated input_argument artefacts: Seq of [name, ty]
    prolog,         \* concatenated transformation artefacts, one per parameter
    hostArgs,       \* concatenated host_call_argument artefacts
    pc,             \* the call through the trampoline: "idle" | "prolog" | "loop" |
                    \*   "called" | "trapped" | "panicked" | "crashed"
    overflow_checks,\* whether the build panics on integer overflow (debug profile)
    mem,            \* guest linear memory: Seq of bytes
    args,           \* guest arguments, one i32 per entry of guestSig
    step,           \* index of the next prolog step
    bound,          \* the value each completed prolog step bound to its argument_name
    io_slices,      \* the transmuted descriptor slice being iterated
    loopIdx,        \* number of descriptors the for loop has consumed
    vec_of_io_slices, \* views pushed so far
    accesses,       \* log: every range handed to wasm_memory().get / get_mut
    descReads,      \* log: every byte range read as an IoVecT
    beyond,         \* what the host holds past the end of guest memory, once read
    failure         \* log: the prolog operation that failed, "" if none

genVars == <<sig, genPos, genStatus, lastResult, guestSig, prolog, hostArgs>>

loopVars == <<io_slices, loopIdx, vec_of_io_slices>>

callVars == <<pc, overflow_checks, mem, args, step, bound, io_slices, loopIdx,
              vec_of_io_slices, accesses, descReads, beyond, failure>>

vars == <<genVars, callVars>>

-----------------------------------------------------------------------------
(* syn syntax trees, as far as inputs.rs inspects them                      *)

Seg(id, hasArgs) == [ident |-> id, arguments |-> hasArgs]

PathTy(leading, segs) == [tag |-> "Path", leading_colon |-> leading, segments |-> segs]

Bare(id) == PathTy(FALSE, <<Seg(id, FALSE)>>)

RefTy(mut, elem) == [tag |-> "Reference", mutability |-> mut, elem |-> elem]

SliceTy(elem) == [tag |-> "Slice", elem |-> elem]

ArrayTy(elem) == [tag |-> "Array", elem |-> elem]

TupleTy == [tag |-> "Tuple"]

PtrTy(elem) == [tag |-> "Ptr", elem |-> elem]

PatIdent(id, byRef, mut) == [tag |-> "Ident", ident |-> id, by_ref |-> byRef, mutability |-> mut]

PatTuple == [tag |-> "Tuple"]

PatWild == [tag |-> "Wild"]

PatType(pat, ty) == [pat |-> pat, ty |-> ty]

\* Path::get_ident of syn: the identifier of a path that is one plain segment
NoIdent == [some |-> FALSE, ident |-> ""]

get_ident(path) ==
    IF ~path.leading_colon /\ Len(path.segments) = 1 /\ ~path.segments[1].arguments
    THEN [some |-> TRUE, ident |-> path.segments[1].ident]
    ELSE NoIdent

\* path.segments.last()
last_segment(path) ==
    IF Len(path.segments) = 0 THEN NoIdent
    ELSE [some |-> TRUE, ident |-> path.segments[Len(path.segments)].ident]

-----------------------------------------------------------------------------
(* enum Transformation and the two classifiers                              *)

Transformation == {"None", "CustomType", "RefCustomType", "RefStr", "RefMutSlice",
                   "RefSliceIoSlices", "RefMutSliceIoSlicesMut", "Unsupported"}

transform_path(path) ==
    LET id == get_ident(path) IN
    IF id.some
    THEN IF id.ident \in {"i32", "i64", "f32", "f64"} THEN "None" ELSE "CustomType"
    ELSE "Unsupported"

\* the element classification shared by both slice arms
MutSliceElem(elem) ==
    IF elem.tag = "Path"
    THEN LET ls == last_segment(elem) IN
         IF ls.some
         THEN IF ls.ident = "IoSliceMut" THEN "RefMutSliceIoSlicesMut"
              ELSE IF ls.ident = "u8" THEN "RefMutSlice"
              ELSE "Unsupported"
         ELSE "Unsupported"
    ELSE "Unsupported"

SharedSliceElem(elem) ==
    IF elem.tag = "Path"
    THEN LET ls == last_segment(elem) IN
         IF ls.some
         THEN IF ls.ident = "IoSlice" THEN "RefSliceIoSlices" ELSE "Unsupported"
         ELSE "Unsupported"
    ELSE "Unsupported"

\* every shared reference that is not a slice or &str taken for a custom type
transform_reference_Lenient(reference) ==
    IF reference.elem.tag = "Slice"
    THEN IF reference.mutability THEN MutSliceElem(reference.elem.elem)
         ELSE SharedSliceElem(reference.elem.elem)
    ELSE IF reference.mutability THEN "Unsupported"
    ELSE IF reference.elem.tag = "Path" /\ get_ident(reference.elem).some
            /\ get_ident(reference.elem).ident = "str" THEN "RefStr"
    ELSE "RefCustomType"

transform_reference(reference) ==
    IF reference.mutability
    THEN IF reference.elem.tag = "Slice"
         THEN MutSliceElem(reference.elem.elem)
         ELSE "Unsupported"
    ELSE IF reference.elem.tag = "Path"
         THEN LET id == get_ident(reference.elem) IN
              IF id.some
              THEN IF id.ident = "str" THEN "RefStr" ELSE "RefCustomType"
              ELSE "Unsupported"
         ELSE IF reference.elem.tag = "Slice"
         THEN SharedSliceElem(reference.elem.elem)
         ELSE "Unsupported"

\* the match on pat_type.ty at the head of transform()
classify(ty) ==
    IF ty.tag = "Path" THEN transform_path(ty)
    ELSE IF ty.tag = "Reference" THEN transform_reference(ty)
    ELSE "Unsupported"

-----------------------------------------------------------------------------
(* transform(): the three artefacts of one parameter                        *)

\* quote! renders a bare-identifier type as that identifier
TypeText(ty) == IF ty.tag = "Path" /\ get_ident(ty).some THEN get_ident(ty).ident ELSE "?"

Arg(name, ty) == [name |-> name, ty |-> ty]

Err(span, kind) == [ok |-> FALSE, err |-> span, kind |-> kind, input_argument |-> <<>>,
                    transformation |-> <<>>, host_call_argument |-> <<>>]

Ok(kind, input, stepRec, hostArg) ==
    [ok |-> TRUE, err |-> "", kind |-> kind, input_argument |-> input,
     transformation |-> <<stepRec>>, host_call_argument |-> <<hostArg>>]

Step(op, bind, reads) == [op |-> op, bind |-> bind, reads |-> reads]

HostArg(name, view) == [name |-> name, view |-> view]

\* format_ident!("{}_ptr_", argument_name), format_ident!("{}_len_", argument_name)
\* the length word declared before the pointer word
PtrLen_Swapped(name) ==
    <<Arg(name \o "_len_", "i32"), Arg(name \o "_ptr_", "i32")>>

PtrLen(name) ==
    <<Arg(name \o "_ptr_", "i32"), Arg(name \o "_len_", "i32")>>

\* the arms of the four (pointer, length) kinds differ in the prolog and the view
SpanResult(kind, name, view) ==
    Ok(kind, PtrLen(name), Step(kind, name, <<PtrLen(name)[1].name, PtrLen(name)[2].name>>),
       HostArg(name, view))

\* an unsupported shape or a qualified name silently taken for a custom type
transform_Fallback(pat_type) ==
    IF pat_type.pat.tag # "Ident" THEN Err("pat", "")
    ELSE Ok("CustomType", <<Arg(pat_type.pat.ident, "i32")>>,
            Step("CustomType", pat_type.pat.ident, <<pat_type.pat.ident>>),
            HostArg(pat_type.pat.ident, ""))

\* a primitive parameter declared to the guest as i32 whatever its type
transform_AllI32(pat_type) ==
    IF pat_type.pat.tag # "Ident" THEN Err("pat", "")
    ELSE IF pat_type.pat.by_ref \/ pat_type.pat.mutability THEN Err("pat", "")
    ELSE LET name == pat_type.pat.ident
             kind == classify(pat_type.ty) IN
         IF kind = "Unsupported" THEN Err("ty", kind)
         ELSE IF kind \in {"None", "CustomType", "RefCustomType"}
         THEN Ok(kind, <<Arg(name, "i32")>>, Step(kind, name, <<name>>), HostArg(name, ""))
         ELSE SpanResult(kind, name, "")

transform(pat_type) ==
    IF pat_type.pat.tag # "Ident" THEN Err("pat", "")
    ELSE IF pat_type.pat.by_ref \/ pat_type.pat.mutability THEN Err("pat", "")
    ELSE IF pat_type.ty.tag \notin {"Path", "Reference"} THEN Err("ty", "Unsupported")
    ELSE LET name == pat_type.pat.ident
             kind == classify(pat_type.ty) IN
         CASE kind = "None" ->
                Ok(kind, <<Arg(name, TypeText(pat_type.ty))>>, Step("None", name, <<>>),
                   HostArg(name, ""))
           [] kind = "CustomType" ->
                Ok(kind, <<Arg(name, "i32")>>, Step("CustomType", name, <<name>>),
                   HostArg(name, ""))
           [] kind = "RefCustomType" ->
                IF pat_type.ty.tag # "Reference" THEN Err("ty", kind)
                ELSE Ok(kind, <<Arg(name, "i32")>>, Step("RefCustomType", name, <<name>>),
                        HostArg(name, ""))
           [] kind = "RefStr" -> SpanResult("RefStr", name, "")
           [] kind = "RefMutSlice" -> SpanResult("RefMutSlice", name, "")
           [] kind = "RefSliceIoSlices" -> SpanResult("RefSliceIoSlices", name, "as_slice")
           [] kind = "RefMutSliceIoSlicesMut" ->
                SpanResult("RefMutSliceIoSlicesMut", name, "as_mut_slice")
           [] OTHER -> Err("ty", kind)

-----------------------------------------------------------------------------
(* machine integers.  An i32 or the bit pattern of a u32 is the integer    *)
(* -2^31 .. 2^31-1 with the same two's complement bits.  A usize is kept   *)
(* as [hi, lo]: hi = 0 for lo itself, hi = 1 for 2^32 + lo (a zero-        *)
(* extended u32 with the top bit set), hi = 2 for 2^64 + lo (a sign-       *)
(* extended negative i32); the order of [hi, lo] is the order of values.   *)

MaxI32 == 2147483647

MinI32 == (-MaxI32) - 1

\* a + b on i32: whether it overflows, and the wrapped result
AddI32(a, b) ==
    IF b > 0 /\ a > MaxI32 - b THEN [overflow |-> TRUE, value |-> (a + MinI32) + (b + MinI32)]
    ELSE IF b < 0 /\ a < MinI32 - b THEN [overflow |-> TRUE, value |-> (a - MinI32) + (b - MinI32)]
    ELSE [overflow |-> FALSE, value |-> a + b]

\* a + b on u32 bit patterns: the wrapped bits are those of the i32 sum; the
\* unsigned sum carries out of 32 bits iff both have the top bit set, or one
\* has and the sum of the patterns is not negative
AddU32(a, b) ==
    [overflow |-> (a < 0 /\ b < 0) \/ ((a < 0) # (b < 0) /\ a + b >= 0),
     value |-> AddI32(a, b).value]

I32AsUsize(x) == [hi |-> IF x < 0 THEN 2 ELSE 0, lo |-> x]

U32AsUsize(x) == [hi |-> IF x < 0 THEN 1 ELSE 0, lo |-> x]

UsizeLe(a, b) == a.hi < b.hi \/ (a.hi = b.hi /\ a.lo <= b.lo)

\* <[u8]>::get(start..end) and get_mut: None unless start <= end <= len
None == [some |-> FALSE, from |-> 0, to |-> 0]

View(from, to) == [some |-> TRUE, from |-> from, to |-> to]

SliceGet(m, start, end) ==
    IF UsizeLe(start, end) /\ UsizeLe(end, [hi |-> 0, lo |-> Len(m)])
    THEN View(start.lo, end.lo)
    ELSE None

Bytes(m, v) == SubSeq(m, v.from + 1, v.to)

\* little-endian u32 at byte offset off, as a bit pattern
LE32(x) == <<x % 256, (x \div 256) % 256, (x \div 65536) % 256, (x \div 16777216) % 256>>

FromLE32(b) ==
    b[1] + 256 * b[2] + 65536 * b[3] + 16777216 * (IF b[4] >= 128 THEN b[4] - 256 ELSE b[4])

\* std::str::from_utf8: whether the bytes are well-formed UTF-8
IsCont(b) == b >= 128 /\ b <= 191

RECURSIVE Utf8Valid(_)
Utf8Valid(b) ==
    IF Len(b) = 0 THEN TRUE
    ELSE LET c == b[1]
             n == Len(b)
             rest(k) == SubSeq(b, k + 1, n) IN
         IF c <= 127 THEN Utf8Valid(rest(1))
         ELSE IF c >= 194 /\ c <= 223
              THEN n >= 2 /\ IsCont(b[2]) /\ Utf8Valid(rest(2))
         ELSE IF c >= 224 /\ c <= 239
              THEN /\ n >= 3
                   /\ IsCont(b[2]) /\ IsCont(b[3])
                   /\ (c = 224 => b[2] >= 160)
                   /\ (c = 237 => b[2] <= 159)
                   /\ Utf8Valid(rest(3))
         ELSE IF c >= 240 /\ c <= 244
              THEN /\ n >= 4
                   /\ IsCont(b[2]) /\ IsCont(b[3]) /\ IsCont(b[4])
                   /\ (c = 240 => b[2] >= 144)
                   /\ (c = 244 => b[2] <= 143)
                   /\ Utf8Valid(rest(4))
         ELSE FALSE

-----------------------------------------------------------------------------
(* the host function signatures and the guest inputs that are explored     *)

MaxSmallLen == 4

ZeroMemLen == 64

\* size_of::<IoVecT>() and align_of::<IoVecT>(): two unsigned 32-bit fields
IoVecTSize == 8

IoVecTAlign == 4

PatSet == {PatIdent("a", FALSE, FALSE), PatIdent("a", TRUE, FALSE),
           PatIdent("a", FALSE, TRUE), PatTuple, PatWild}

StdIo(id, hasArgs) == PathTy(FALSE, <<Seg("std", FALSE), Seg("io", FALSE), Seg(id, hasArgs)>>)

PathTypes == {Bare("i32"), Bare("i64"), Bare("f32"), Bare("f64"), Bare("Foo"),
              Bare("u8"), Bare("str"), Bare("IoSlice"), Bare("IoSliceMut"),
              PathTy(FALSE, <<Seg("Vec", TRUE)>>), PathTy(TRUE, <<Seg("Foo", FALSE)>>),
              PathTy(FALSE, <<Seg("core", FALSE), Seg("primitive", FALSE), Seg("u8", FALSE)>>),
              PathTy(FALSE, <<Seg("core", FALSE), Seg("primitive", FALSE), Seg("i32", FALSE)>>),
              PathTy(FALSE, <<Seg("core", FALSE), Seg("primitive", FALSE), Seg("str", FALSE)>>),
              StdIo("IoSlice", TRUE), StdIo("IoSliceMut", TRUE), StdIo("Foo", FALSE)}

ElemTypes == PathTypes \cup {SliceTy(t) : t \in PathTypes}
                       \cup {RefTy(FALSE, Bare("Foo")), RefTy(TRUE, Bare("Foo")),
                             RefTy(FALSE, Bare("str")), TupleTy, ArrayTy(Bare("u8")),
                             SliceTy(RefTy(FALSE, Bare("u8"))), SliceTy(TupleTy),
                             SliceTy(SliceTy(Bare("u8"))), PtrTy(Bare("u8"))}

TypeSet == ElemTypes \cup {RefTy(m, t) : m \in BOOLEAN, t \in ElemTypes}

a_i32 == PatType(PatIdent("a", FALSE, FALSE), Bare("i32"))

b_str == PatType(PatIdent("b", FALSE, FALSE), RefTy(FALSE, Bare("str")))

c_mut_u8 == PatType(PatIdent("c", FALSE, FALSE), RefTy(TRUE, SliceTy(Bare("u8"))))

d_mut_u8 == PatType(PatIdent("d", FALSE, FALSE), RefTy(TRUE, SliceTy(Bare("u8"))))

MultiSigs == {<<a_i32, b_str, c_mut_u8>>,
              <<c_mut_u8, d_mut_u8>>,
              <<PatType(PatIdent("x", FALSE, FALSE), Bare("Foo")),
                PatType(PatIdent("y", FALSE, FALSE), RefTy(FALSE, Bare("Foo")))>>,
              <<b_str, PatType(PatIdent("y", FALSE, FALSE), ArrayTy(Bare("u8")))>>,
              <<c_mut_u8, PatType(PatIdent("y", FALSE, TRUE), Bare("i32"))>>}

Signatures == {<<PatType(p, t)>> : p \in PatSet, t \in TypeSet} \cup MultiSigs

IoVecT(ptr, len) == [ptr |-> ptr, len |-> len]

Desc(d) == LE32(d.ptr) \o LE32(d.len)

\* a 48-byte guest memory: two descriptors, "hi", U+00E9, two bytes that are not
\* UTF-8, and three more descriptors
MainImage ==
    Desc(IoVecT(16, 4)) \o Desc(IoVecT(18, 4)) \o <<104, 105, 195, 169, 255, 128, 0, 0>>
    \o Desc(IoVecT(-1, 2)) \o Desc(IoVecT(0, 0)) \o Desc(IoVecT(40, 8))

ZeroImage == [k \in 1..ZeroMemLen |-> 0]

MemImages == {MainImage, ZeroImage}

PtrValues == {0, 16, 18, 24, 40, 47, MaxI32, -1, MinI32}

LenValues == (0..MaxSmallLen) \cup {8, 16, MaxI32, -1, MinI32}

HandleValues == {7}

\* what a read past the end of guest memory may find
GarbageDescs == {IoVecT(0, 0), IoVecT(16, 4), IoVecT(-1, -1)}

\* the guest argument a prolog step reads under a generated name
ArgIndex(name) == CHOOSE k \in 1..Len(guestSig) : guestSig[k].name = name

ArgVal(name) == args[ArgIndex(name)]

EntryValues(k) ==
    LET name == guestSig[k].name IN
    IF \E s \in 1..Len(prolog) : Len(prolog[s].reads) = 2 /\ prolog[s].reads[1] = name
    THEN PtrValues
    ELSE IF \E s \in 1..Len(prolog) : Len(prolog[s].reads) = 2 /\ prolog[s].reads[2] = name
    THEN LenValues
    ELSE HandleValues

RECURSIVE ArgSeqs(_)
ArgSeqs(k) ==
    IF k = 0 THEN {<<>>}
    ELSE {Append(s, v) : s \in ArgSeqs(k - 1), v \in EntryValues(k)}

-----------------------------------------------------------------------------
(* generation: transform() once per parameter, in declaration order         *)

Unread == [read |-> FALSE, d |-> IoVecT(0, 0)]

NoSlice == [from |-> 0, count |-> 0, mutable |-> FALSE, checked |-> None]

Init ==
    /\ sig \in Signatures
    /\ genPos = 0
    /\ genStatus = "generating"
    /\ lastResult = Err("", "")
    /\ guestSig = <<>>
    /\ prolog = <<>>
    /\ hostArgs = <<>>
    /\ pc = "idle"
    /\ overflow_checks = FALSE
    /\ mem = <<>>
    /\ args = <<>>
    /\ step = 0
    /\ bound = <<>>
    /\ io_slices = NoSlice
    /\ loopIdx = 0
    /\ vec_of_io_slices = <<>>
    /\ accesses = <<>>
    /\ descReads = <<>>
    /\ beyond = Unread
    /\ failure = ""

GenParam ==
    /\ genStatus = "generating"
    /\ genPos < Len(sig)
    /\ LET r == transform(sig[genPos + 1]) IN
       /\ lastResult' = r
       /\ genPos' = genPos + 1
       /\ IF r.ok
          THEN /\ guestSig' = guestSig \o r.input_argument
               /\ prolog' = prolog \o r.transformation
               /\ hostArgs' = hostArgs \o r.host_call_argument
               /\ genStatus' = IF genPos + 1 = Len(sig) THEN "ok" ELSE "generating"
          ELSE /\ guestSig' = <<>>
               /\ prolog' = <<>>
               /\ hostArgs' = <<>>
               /\ genStatus' = "error"
    /\ UNCHANGED <<sig, callVars>>

-----------------------------------------------------------------------------
(* a call through the generated trampoline: the decode prolog, step by     *)
(* step, then the wrapped host function                                     *)

\* the guest calls the trampoline
BeginCall ==
    /\ genStatus = "ok"
    /\ pc = "idle"
    /\ \E oc \in BOOLEAN, m \in MemImages, a \in ArgSeqs(Len(guestSig)) :
          /\ overflow_checks' = oc
          /\ mem' = m
          /\ args' = a
    /\ pc' = "prolog"
    /\ step' = 1
    /\ UNCHANGED <<genVars, beyond, bound, loopVars, accesses, descReads, failure>>

AtStep(op) == pc = "prolog" /\ step <= Len(prolog) /\ prolog[step].op = op

Value(kind, views, mutable) == [kind |-> kind, views |-> views, mutable |-> mutable]

Access(ptr, len, range, result) ==
    [ptr |-> ptr, len |-> len, signed |-> range.signed, start |-> range.start,
     end |-> range.end, result |-> result]

\* `?` on an Err or an absent value: the trampoline returns the trap
Trap(reason, log) ==
    /\ pc' = "trapped"
    /\ failure' = reason
    /\ accesses' = log
    /\ UNCHANGED <<genVars, beyond, overflow_checks, mem, args, step, bound, loopVars, descReads>>

\* an arithmetic overflow panic of a build with overflow checks
Panic ==
    /\ pc' = "panicked"
    /\ UNCHANGED <<genVars, beyond, overflow_checks, mem, args, step, bound, loopVars, accesses,
                   descReads, failure>>

\* the step's `let #argument_name = ...;` completes
Bind(value, log) ==
    /\ bound' = Append(bound, value)
    /\ step' = step + 1
    /\ accesses' = log
    /\ UNCHANGED <<genVars, beyond, pc, overflow_checks, mem, args, loopVars, descReads, failure>>

\* `#varname_ptr as usize..(#varname_ptr + #varname_len) as usize` on two i32
RangeI32(ptr, len) ==
    LET sum == AddI32(ptr, len) IN
    [panics |-> overflow_checks /\ sum.overflow, signed |-> TRUE,
     start |-> I32AsUsize(ptr), end |-> I32AsUsize(sum.value)]

\* `io_vec_t.ptr as usize..(io_vec_t.ptr + io_vec_t.len) as usize` on two u32
RangeU32(ptr, len) ==
    LET sum == AddU32(ptr, len) IN
    [panics |-> overflow_checks /\ sum.overflow, signed |-> FALSE,
     start |-> U32AsUsize(ptr), end |-> U32AsUsize(sum.value)]

\* Transformation::None: no prolog code, the guest value is the host argument
StepNone ==
    /\ AtStep("None")
    /\ Bind(Value("None", <<>>, FALSE), accesses)

\* <T as FromWasmI32>::from_i32(state, instance_environment, arg)?
StepCustomType ==
    /\ AtStep("CustomType")
    /\ \E decoded \in BOOLEAN :
          IF decoded THEN Bind(Value("CustomType", <<>>, FALSE), accesses)
          ELSE Trap("from_i32", accesses)

\* <T as FromWasmI32Borrowed>::from_i32_borrowed(state, instance_environment, arg)?
StepRefCustomType ==
    /\ AtStep("RefCustomType")
    /\ \E decoded \in BOOLEAN :
          IF decoded THEN Bind(Value("RefCustomType", <<>>, FALSE), accesses)
          ELSE Trap("from_i32_borrowed", accesses)

StepRefStr ==
    /\ AtStep("RefStr")
    /\ LET ptr == ArgVal(prolog[step].reads[1])
           len == ArgVal(prolog[step].reads[2])
           r == RangeI32(ptr, len)
           slice == SliceGet(mem, r.start, r.end)
           log == Append(accesses, Access(ptr, len, r, slice)) IN
       IF r.panics THEN Panic
       ELSE IF ~slice.some THEN Trap("get", log)
       ELSE IF ~Utf8Valid(Bytes(mem, slice)) THEN Trap("from_utf8", log)
       ELSE Bind(Value("RefStr", <<slice>>, FALSE), log)

StepRefMutSlice ==
    /\ AtStep("RefMutSlice")
    /\ LET ptr == ArgVal(prolog[step].reads[1])
           len == ArgVal(prolog[step].reads[2])
           r == RangeI32(ptr, len)
           slice == SliceGet(mem, r.start, r.end)
           log == Append(accesses, Access(ptr, len, r, slice)) IN
       IF r.panics THEN Panic
       ELSE IF ~slice.some THEN Trap("get_mut", log)
       ELSE Bind(Value("RefMutSlice", <<slice>>, TRUE), log)

\* the head of both vectored arms: the descriptor array is fetched, transmuted
\* from &[u8] to &[IoVecT] (the slice keeps its element count) and iterated
VecBegin(op, mutable) ==
    /\ AtStep(op)
    /\ LET ptr == ArgVal(prolog[step].reads[1])
           len == ArgVal(prolog[step].reads[2])
           r == RangeI32(ptr, len)
           slice == SliceGet(mem, r.start, r.end)
           log == Append(accesses, Access(ptr, len, r, slice)) IN
       IF r.panics THEN Panic
       ELSE IF ~slice.some THEN Trap(IF mutable THEN "get_mut" ELSE "get", log)
       ELSE /\ io_slices' = [from |-> slice.from, count |-> slice.to - slice.from,
                             mutable |-> mutable, checked |-> slice]
            /\ loopIdx' = 0
            /\ vec_of_io_slices' = <<>>
            /\ pc' = "loop"
            /\ accesses' = log
            /\ UNCHANGED <<genVars, beyond, overflow_checks, mem, args, step, bound, descReads,
                           failure>>

StepRefSliceIoSlices == VecBegin("RefSliceIoSlices", FALSE)

StepRefMutSliceIoSlicesMut == VecBegin("RefMutSliceIoSlicesMut", TRUE)

\* the IoVecT at a byte offset of guest memory (little-endian host)
ReadIoVecT(m, off) ==
    IoVecT(FromLE32(SubSeq(m, off + 1, off + 4)), FromLE32(SubSeq(m, off + 5, off + 8)))

\* byte offset of the descriptor the loop reads next
NextDescOff == io_slices.from + IoVecTSize * loopIdx

DescRead == [from |-> NextDescOff, to |-> NextDescOff + IoVecTSize,
             checked |-> io_slices.checked]

\* one iteration of `for io_vec_t in io_slices.into_iter()`
\* a descriptor whose range is absent skipped instead of trapping
LoopBody_SkipBad(d) ==
    LET r == RangeU32(d.ptr, d.len)
        io_slice == SliceGet(mem, r.start, r.end)
        log == Append(accesses, Access(d.ptr, d.len, r, io_slice)) IN
    /\ descReads' = Append(descReads, DescRead)
    /\ IF r.panics
       THEN /\ pc' = "panicked"
            /\ UNCHANGED <<genVars, overflow_checks, mem, args, step, bound, loopVars,
                           accesses, failure>>
       ELSE /\ vec_of_io_slices' = IF io_slice.some THEN Append(vec_of_io_slices, io_slice)
                                   ELSE vec_of_io_slices
            /\ loopIdx' = loopIdx + 1
            /\ failure' = IF io_slice.some THEN failure ELSE "get"
            /\ accesses' = log
            /\ UNCHANGED <<genVars, pc, overflow_checks, mem, args, step, bound,
                           io_slices>>

LoopBody(d) ==
    LET r == RangeU32(d.ptr, d.len)
        io_slice == SliceGet(mem, r.start, r.end)
        log == Append(accesses, Access(d.ptr, d.len, r, io_slice)) IN
    /\ descReads' = Append(descReads, DescRead)
    /\ IF r.panics
       THEN /\ pc' = "panicked"
            /\ UNCHANGED <<genVars, overflow_checks, mem, args, step, bound, loopVars,
                           accesses, failure>>
       ELSE IF ~io_slice.some
       THEN /\ pc' = "trapped"
            /\ failure' = IF io_slices.mutable THEN "get_mut" ELSE "get"
            /\ accesses' = log
            /\ UNCHANGED <<genVars, overflow_checks, mem, args, step, bound, loopVars>>
       ELSE /\ vec_of_io_slices' = Append(vec_of_io_slices, io_slice)
            /\ loopIdx' = loopIdx + 1
            /\ accesses' = log
            /\ UNCHANGED <<genVars, pc, overflow_checks, mem, args, step, bound,
                           io_slices, failure>>

\* a read the language leaves undefined ends the host process
Fault ==
    /\ pc' = "crashed"
    /\ descReads' = Append(descReads, DescRead)
    /\ UNCHANGED <<genVars, beyond, overflow_checks, mem, args, step, bound, loopVars,
                   accesses, failure>>

\* the descriptor lies in guest memory: its bytes are read; at an address that
\* is not a multiple of the alignment of IoVecT the read is undefined
\* behaviour, it yields the bytes or faults
LoopIter ==
    /\ pc = "loop"
    /\ loopIdx < io_slices.count
    /\ NextDescOff + IoVecTSize <= Len(mem)
    /\ \/ /\ LoopBody(ReadIoVecT(mem, NextDescOff))
          /\ UNCHANGED beyond
       \/ /\ NextDescOff % IoVecTAlign # 0
          /\ Fault

\* the descriptor reaches past the end of guest memory: the read is undefined
\* behaviour, it finds whatever the host has there or faults
LoopIterOutside ==
    /\ pc = "loop"
    /\ loopIdx < io_slices.count
    /\ NextDescOff + IoVecTSize > Len(mem)
    /\ \/ \E d \in (IF beyond.read THEN {beyond.d} ELSE GarbageDescs) :
             /\ beyond' = [read |-> TRUE, d |-> d]
             /\ LoopBody(d)
       \/ Fault

\* the loop is over: the block's value is vec_of_io_slices
LoopEnd ==
    /\ pc = "loop"
    /\ loopIdx = io_slices.count
    /\ bound' = Append(bound, Value(prolog[step].op, vec_of_io_slices, io_slices.mutable))
    /\ step' = step + 1
    /\ pc' = "prolog"
    /\ UNCHANGED <<genVars, beyond, overflow_checks, mem, args, loopVars, accesses, descReads,
                   failure>>

\* the prolog is over: the wrapped host function runs on the bound values
CallHost ==
    /\ pc = "prolog"
    /\ step = Len(prolog) + 1
    /\ pc' = "called"
    /\ UNCHANGED <<genVars, beyond, overflow_checks, mem, args, step, bound, loopVars, accesses,
                   descReads, failure>>

Next ==
    \/ GenParam
    \/ BeginCall
    \/ StepNone
    \/ StepCustomType
    \/ StepRefCustomType
    \/ StepRefStr
    \/ StepRefMutSlice
    \/ StepRefSliceIoSlices
    \/ StepRefMutSliceIoSlicesMut
    \/ LoopIter
    \/ LoopIterOutside
    \/ LoopEnd
    \/ CallHost

Spec == Init /\ [][Next]_vars

-----------------------------------------------------------------------------
(* properties                                                               *)

Vectored == {"RefSliceIoSlices", "RefMutSliceIoSlicesMut"}

Spans == {"RefStr", "RefMutSlice"} \cup Vectored

Ended == pc \in {"called", "trapped", "panicked", "crashed"}

\* the parameter transform() was last applied to
LastParam == sig[genPos]

PlainName(pat) == pat.tag = "Ident" /\ ~pat.by_ref /\ ~pat.mutability

\* a path written as one identifier, nothing else
IsBareIdent(ty) ==
    /\ ty.tag = "Path"
    /\ ~ty.leading_colon
    /\ Len(ty.segments) = 1
    /\ ~ty.segments[1].arguments

\* a slice type whose element is a path ending in the segment id
IsSliceOfLast(ty, id) ==
    /\ ty.tag = "Slice"
    /\ ty.elem.tag = "Path"
    /\ ty.elem.segments[Len(ty.elem.segments)].ident = id

Overlap(v, w) == v.from < w.to /\ w.from < v.to

\* what holds of every state of a call: a recorded failure or an absent range
\* means trapped, and the host function runs on fully decoded arguments only
C1_State ==
    /\ failure # "" => pc = "trapped"
    /\ (\E k \in 1..Len(accesses) : ~accesses[k].result.some) => pc = "trapped"
    /\ pc = "called" =>
          /\ Len(bound) = Len(prolog)
          /\ \A k \in 1..Len(bound) :
                /\ bound[k].kind = "RefStr" => Utf8Valid(Bytes(mem, bound[k].views[1]))
                /\ bound[k].kind \in Vectored =>
                      Len(bound[k].views) = ArgVal(prolog[k].reads[2])

\* C1: a failed prolog operation (an absent memory range, bytes that are not
\* UTF-8, a failed custom-type decode, a failed descriptor of a vectored span)
\* ends the call in a trap; a trapped call stays trapped, so the host function
\* is never invoked after it; the host function only ever runs on a prolog
\* that bound every parameter, each vectored span holding one view per
\* descriptor of the slice that was iterated.
C1_FailureTrapsBeforeHost ==
    [](C1_State) /\ [][pc = "trapped" => pc' = "trapped"]_vars

\* C1 witness: a vectored span whose third descriptor fails after two views
\* were collected; the call is trapped
C1_Witness ==
    /\ pc = "trapped"
    /\ failure = "get"
    /\ prolog[step].op = "RefSliceIoSlices"
    /\ Len(vec_of_io_slices) = 2
    /\ io_slices.count = 3

\* as unsigned 32-bit words, ptr + len exceeds the memory size or 2^32
Exceeds(ptr, len) == ~(ptr >= 0 /\ len >= 0 /\ len <= Len(mem) /\ ptr <= Len(mem) - len)

\* C2: whenever ptr + len exceeds the guest memory size or overflows, the
\* decode (outer range or per-descriptor range) traps and returns no view.
C2_ExceedingRangeTraps ==
    /\ pc # "panicked"
    /\ \A k \in 1..Len(accesses) :
          Exceeds(accesses[k].ptr, accesses[k].len) =>
             ~accesses[k].result.some /\ pc = "trapped"

\* whether the 32-bit sum of an access wrapped around
Wrapped(a) ==
    IF a.signed
    THEN (a.ptr >= 0 /\ a.len >= 0 /\ a.end.lo < 0) \/ (a.ptr < 0 /\ a.len < 0 /\ a.end.lo >= 0)
    ELSE (a.ptr < 0 /\ a.len < 0) \/ ((a.ptr < 0) # (a.len < 0) /\ a.end.lo >= 0)

\* C3: the end of every range handed to the memory accessor is the exact sum
\* ptr + len, never a wrapped-around one, and no sum crashes the host.
C3_ExactRangeEnd ==
    /\ pc # "panicked"
    /\ \A k \in 1..Len(accesses) : ~Wrapped(accesses[k])

\* the descriptors that the checked byte range [ptr, ptr+len) holds
HeldDescs(ptr, len) ==
    [i \in 1..(len \div IoVecTSize) |-> ReadIoVecT(mem, ptr + IoVecTSize * (i - 1))]

ValidDesc(d) == d.ptr >= 0 /\ d.len >= 0 /\ d.len <= Len(mem) /\ d.ptr <= Len(mem) - d.len

\* C4: a vectored span whose checked byte range holds N descriptors, each of a
\* valid range, decodes to exactly the N views of these ranges, in order.
C4_VectoredDecode ==
    (/\ Ended
     /\ Len(prolog) = 1
     /\ prolog[1].op \in Vectored
     /\ ~Exceeds(args[1], args[2])
     /\ args[2] % IoVecTSize = 0
     /\ \A i \in 1..(args[2] \div IoVecTSize) : ValidDesc(HeldDescs(args[1], args[2])[i]))
    => /\ pc = "called"
       /\ bound[1].views = [i \in 1..(args[2] \div IoVecTSize) |->
                               View(HeldDescs(args[1], args[2])[i].ptr,
                                    HeldDescs(args[1], args[2])[i].ptr
                                       + HeldDescs(args[1], args[2])[i].len)]

\* C9: every descriptor the loop reads lies inside the byte range that was
\* bounds-checked, and the records iterated fit into that range.
C9_DescriptorsInsideChecked ==
    /\ \A k \in 1..Len(descReads) :
          /\ descReads[k].checked.from <= descReads[k].from
          /\ descReads[k].to <= descReads[k].checked.to
    /\ pc = "loop" =>
          io_slices.count * IoVecTSize <= io_slices.checked.to - io_slices.checked.from

\* the mutable views of the values bound so far, as <<step, index>> places
MutViews == {<<k, i>> \in (1..Len(bound)) \X (1..Len(mem)) :
                bound[k].mutable /\ i <= Len(bound[k].views)}

\* C10: no two mutable views handed to the host function share a byte, and no
\* mutable per-descriptor view overlaps the descriptor array being read.
C10_MutableViewsExclusive ==
    /\ pc = "called" =>
          \A p \in MutViews, q \in MutViews :
             p # q => ~Overlap(bound[p[1]].views[p[2]], bound[q[1]].views[q[2]])
    /\ (pc = "loop" /\ io_slices.mutable /\ loopIdx < io_slices.count) =>
          \A i \in 1..Len(vec_of_io_slices) :
             ~Overlap(vec_of_io_slices[i], io_slices.checked)

Primitives == {"i32", "i64", "f32", "f64"}

\* the priority rules, with &mut [u8] read as the slice of the bare identifier u8
ClaimedKind(ty) ==
    IF IsBareIdent(ty)
    THEN IF ty.segments[1].ident \in Primitives THEN "None" ELSE "CustomType"
    ELSE IF ty.tag = "Reference" /\ ty.mutability
    THEN IF ty.elem = SliceTy(Bare("u8")) THEN "RefMutSlice"
         ELSE IF IsSliceOfLast(ty.elem, "IoSliceMut") THEN "RefMutSliceIoSlicesMut"
         ELSE "Unsupported"
    ELSE IF ty.tag = "Reference"
    THEN IF ty.elem = Bare("str") THEN "RefStr"
         ELSE IF IsSliceOfLast(ty.elem, "IoSlice") THEN "RefSliceIoSlices"
         ELSE IF IsBareIdent(ty.elem) THEN "RefCustomType"
         ELSE "Unsupported"
    ELSE "Unsupported"

\* the same rules, with &mut [..u8]: any element path whose last segment is u8
AmendedKind(ty) ==
    IF ty.tag = "Reference" /\ ty.mutability /\ IsSliceOfLast(ty.elem, "u8")
    THEN "RefMutSlice"
    ELSE ClaimedKind(ty)

\* the parameter was classified: transform() got past the check of its name
Classified == genPos > 0 /\ PlainName(LastParam.pat)

\* C5 as claimed: the kind transform() computes for a parameter is the one the
\* priority rules give, &mut [u8] being the only type of kind MutableByteSpan.
C5_ClassifyAsClaimed == Classified => lastResult.kind = ClaimedKind(LastParam.ty)

\* C5 amended: the kind transform() computes for a parameter is the one the
\* priority rules give, where every &mut [..u8] (an element path whose last
\* segment is u8) is of kind MutableByteSpan.
C5_ClassifyAmended == Classified => lastResult.kind = AmendedKind(LastParam.ty)

\* C5 witness: &mut [core::primitive::u8] was classified RefMutSlice
C5_Witness ==
    /\ Classified
    /\ LastParam.ty.tag = "Reference"
    /\ LastParam.ty.mutability
    /\ LastParam.ty.elem.tag = "Slice"
    /\ LastParam.ty.elem.elem.tag = "Path"
    /\ Len(LastParam.ty.elem.elem.segments) = 3
    /\ lastResult.kind = "RefMutSlice"

DoubleReference(ty) == ty.tag = "Reference" /\ ty.elem.tag = "Reference"

\* C6: transform() fails, with the error on the parameter's name when the name
\* is not a plain identifier and else on its type, and with no artefact,
\* exactly when the name is not plain or the type classifies Unsupported;
\* arrays, tuples and double references always fail; all else succeeds with
\* one prolog step, one host argument and a guest fragment.
C6_FailsExactlyOnBadShape ==
    genPos > 0 =>
       /\ lastResult.ok <=> (PlainName(LastParam.pat)
                             /\ AmendedKind(LastParam.ty) # "Unsupported")
       /\ ~lastResult.ok =>
             /\ lastResult.err = (IF PlainName(LastParam.pat) THEN "ty" ELSE "pat")
             /\ lastResult.input_argument = <<>>
             /\ lastResult.transformation = <<>>
             /\ lastResult.host_call_argument = <<>>
       /\ (LastParam.ty.tag \in {"Array", "Tuple"} \/ DoubleReference(LastParam.ty))
             => ~lastResult.ok
       /\ lastResult.ok =>
             /\ lastResult.kind # "Unsupported"
             /\ Len(lastResult.input_argument) >= 1
             /\ Len(lastResult.transformation) = 1
             /\ Len(lastResult.host_call_argument) = 1

\* C6 witness: a double reference under a plain name was rejected on its type
C6_Witness ==
    /\ genPos > 0
    /\ PlainName(LastParam.pat)
    /\ DoubleReference(LastParam.ty)
    /\ ~lastResult.ok
    /\ lastResult.err = "ty"
    /\ genStatus = "error"

AllI32(fragment) == \A k \in 1..Len(fragment) : fragment[k].ty = "i32"

\* C7 as claimed: the fragment of an accepted parameter has one entry, of type
\* i32, for None, CustomType and RefCustomType, and two i32 entries for the
\* four (pointer, length) kinds.
C7_FragmentAsClaimed ==
    (genPos > 0 /\ lastResult.ok) =>
       /\ AllI32(lastResult.input_argument)
       /\ Len(lastResult.input_argument) =
             (IF lastResult.kind \in Spans THEN 2 ELSE 1)

\* C7 amended: the fragment has one entry for None, CustomType and
\* RefCustomType; that entry is the parameter as declared (its own primitive
\* type, i32, i64, f32 or f64) for None and is of type i32 for the two
\* custom kinds; it has two i32 entries for the four (pointer, length) kinds.
C7_FragmentAmended ==
    (genPos > 0 /\ lastResult.ok) =>
       /\ Len(lastResult.input_argument) = (IF lastResult.kind \in Spans THEN 2 ELSE 1)
       /\ lastResult.kind = "None" =>
             lastResult.input_argument =
                <<Arg(LastParam.pat.ident, LastParam.ty.segments[1].ident)>>
       /\ lastResult.kind # "None" => AllI32(lastResult.input_argument)
       /\ lastResult.kind \in {"CustomType", "RefCustomType"} =>
             lastResult.input_argument[1].name = LastParam.pat.ident

\* C7 witness: an f64 parameter was forwarded as f64
C7_Witness ==
    /\ genPos > 0
    /\ lastResult.ok
    /\ lastResult.kind = "None"
    /\ lastResult.input_argument = <<Arg("a", "f64")>>

Scenario == <<a_i32, b_str, c_mut_u8>>

Ops == [k \in 1..Len(prolog) |-> prolog[k].op]

\* C8 as claimed: f(a: i32, b: &str, c: &mut [u8]) generates the fragments
\* (a,i32), (b_ptr,i32), (b_len,i32), (c_ptr,i32), (c_len,i32) and the prolog
\* none, string-decode, mutable-span-decode.
C8_ScenarioAsClaimed ==
    (sig = Scenario /\ genStatus = "ok") =>
       /\ guestSig = <<Arg("a", "i32"), Arg("b_ptr", "i32"), Arg("b_len", "i32"),
                       Arg("c_ptr", "i32"), Arg("c_len", "i32")>>
       /\ Ops = <<"None", "RefStr", "RefMutSlice">>

\* the fragment a parameter is to contribute, with the generated names
RECURSIVE Fragments(_)
Fragments(params) ==
    IF Len(params) = 0 THEN <<>>
    ELSE LET p == params[1]
             k == AmendedKind(p.ty) IN
         (IF k \in Spans
          THEN <<Arg(p.pat.ident \o "_ptr_", "i32"), Arg(p.pat.ident \o "_len_", "i32")>>
          ELSE IF k = "None" THEN <<Arg(p.pat.ident, p.ty.segments[1].ident)>>
          ELSE <<Arg(p.pat.ident, "i32")>>)
         \o Fragments(Tail(params))

\* C8 amended: the artefacts are concatenated in declaration order and a span
\* or string parameter p contributes (p_ptr_, i32), (p_len_, i32), the names
\* ending in an underscore: f(a: i32, b: &str, c: &mut [u8]) generates
\* (a,i32), (b_ptr_,i32), (b_len_,i32), (c_ptr_,i32), (c_len_,i32) and the
\* prolog none, string-decode, mutable-span-decode.
C8_ScenarioAmended ==
    /\ genStatus = "ok" =>
          /\ guestSig = Fragments(sig)
          /\ Ops = [k \in 1..Len(sig) |-> AmendedKind(sig[k].ty)]
          /\ hostArgs = [k \in 1..Len(sig) |->
                            HostArg(sig[k].pat.ident,
                                    CASE AmendedKind(sig[k].ty) = "RefSliceIoSlices" -> "as_slice"
                                      [] AmendedKind(sig[k].ty) = "RefMutSliceIoSlicesMut"
                                            -> "as_mut_slice"
                                      [] OTHER -> "")]
    /\ (sig = Scenario /\ genStatus = "ok") =>
          /\ guestSig = <<Arg("a", "i32"), Arg("b_ptr_", "i32"), Arg("b_len_", "i32"),
                          Arg("c_ptr_", "i32"), Arg("c_len_", "i32")>>
          /\ Ops = <<"None", "RefStr", "RefMutSlice">>

\* C8 witness: the trampoline of f(a: i32, b: &str, c: &mut [u8]) was generated
C8_Witness == sig = Scenario /\ genStatus = "ok" /\ Len(guestSig) = 5

====
